---------------------------- MODULE Spec2Model ----------------------------
(***************************************************************************)
(* Model of sapling-crypto's primitives (src/src/primitives/mod.rs):       *)
(* value commitments, the key hierarchy ProofGenerationKey -> ViewingKey   *)
(* -> PaymentAddress, notes, note commitments and nullifiers.              *)
(*                                                                         *)
(* The code is generic over a JubjubEngine E.  The curve, the fields, the  *)
(* group hash, the Pedersen hash and BLAKE2s are not part of primitives/   *)
(* mod.rs; they are instantiated here by a small engine with the same      *)
(* shape as Jubjub:                                                        *)
(*   - base field Fr = GF(97), written in 32-byte encodings;               *)
(*   - twisted Edwards curve -x^2 + y^2 = 1 + 7 x^2 y^2 of order 8 * 13    *)
(*     (cofactor 8, prime-order subgroup of order 13);                     *)
(*   - scalar field Fs = GF(13) with a one-byte representation, whose      *)
(*     modulus 0x0d has its top byte above the mask 0b00000111, as the     *)
(*     Jubjub modulus 0x0e7d... has.                                       *)
(* Byte buffers keep the code's sizes: 32-byte point encodings, 64-byte    *)
(* hash preimages, 32-byte digests, 72-byte note contents, 576 bits.       *)
(***************************************************************************)
EXTENDS Integers, Sequences, FiniteSets, TLC

(***************************************************************************)
(* Bounds of the model.                                                    *)
(***************************************************************************)
\* the width of the value/position integers (u64 in the code), scaled so
\* that 2^U64Bits stays below the subgroup order, as 2^64 is for Jubjub
U64Bits == 2
\* randomness scalars drawn for notes are 0..MaxRand
MaxRand == 2
\* the first byte of the diversifiers drawn is 0..MaxDiv
MaxDiv == 7
\* note values drawn are 0..MaxValue, positions 0..MaxPosition
MaxValue == 2
MaxPosition == 2
\* diversified bases drawn for notes are k * BasePoint, k in 0..MaxPoint
MaxPoint == 1

RECURSIVE Pow2(_)
Pow2(n) == IF n = 0 THEN 1 ELSE 2 * Pow2(n - 1)

U64 == 0 .. (Pow2(U64Bits) - 1)

\* u64 addition as the release build performs it (wrapping)
wrapping_add(a, b) == (a + b) % Pow2(U64Bits)

(***************************************************************************)
(* Option and outcome values.                                              *)
(***************************************************************************)
Unset == [tag |-> "Unset"]
None == [tag |-> "None"]
Some(v) == [tag |-> "Some", val |-> v]
Panic == [tag |-> "Panic"]

\* a local binding: x is evaluated, then F is applied to its value
Let(x, F(_)) == IF x = x THEN F(x) ELSE F(x)

\* Option::map, with a panic inside the closure unwinding through it
Option_map(o, f(_)) ==
    IF o.tag = "Some"
    THEN Let(f(o.val), LAMBDA r : IF r.tag = "Panic" THEN Panic ELSE Some(r.val))
    ELSE None

(***************************************************************************)
(* The engine: fields.                                                     *)
(***************************************************************************)
FrModulus == 97
FsModulus == 13
EdwardsD == 7
Cofactor == 8

Fr == 0 .. (FrModulus - 1)
Fs == 0 .. (FsModulus - 1)

FrInvTable == [a \in 1 .. (FrModulus - 1) |->
                 CHOOSE z \in 1 .. (FrModulus - 1) : (a * z) % FrModulus = 1]
FrInv(a) == FrInvTable[a]
FrNeg(a) == (FrModulus - a) % FrModulus
FrMul(a, b) == (a * b) % FrModulus
FrAdd(a, b) == (a + b) % FrModulus

Fs_add(a, b) == (a + b) % FsModulus

(***************************************************************************)
(* The engine: the twisted Edwards curve (a = -1).                         *)
(***************************************************************************)
OnCurve(x, y) ==
    FrAdd(FrNeg(FrMul(x, x)), FrMul(y, y))
        = FrAdd(1, FrMul(EdwardsD, FrMul(FrMul(x, x), FrMul(y, y))))

Points == {P \in Fr \X Fr : OnCurve(P[1], P[2])}

Point_zero == <<0, 1>>

\* the complete addition law
EdwardsAdd(P, Q) ==
    LET x1 == P[1]  y1 == P[2]  x2 == Q[1]  y2 == Q[2]
        t == FrMul(EdwardsD, FrMul(FrMul(x1, x2), FrMul(y1, y2)))
        x3 == FrMul(FrAdd(FrMul(x1, y2), FrMul(y1, x2)), FrInv(FrAdd(1, t)))
        y3 == FrMul(FrAdd(FrMul(y1, y2), FrMul(x1, x2)), FrInv(FrAdd(1, FrNeg(t))))
    IN  <<x3, y3>>

\* the sums of all pairs of points, computed once
AddTable == [PQ \in Points \X Points |-> EdwardsAdd(PQ[1], PQ[2])] @@ << >>

Point_add(P, Q) == AddTable[<<P, Q>>]

Point_negate(P) == <<FrNeg(P[1]), P[2]>>

Point_double(P) == Point_add(P, P)

\* double-and-add over the bits of the scalar's representation
RECURSIVE DoubleAndAdd(_, _)
DoubleAndAdd(P, n) ==
    IF n = 0 THEN Point_zero
    ELSE LET h == Point_double(DoubleAndAdd(P, n \div 2))
         IN  IF n % 2 = 1 THEN Point_add(h, P) ELSE h

\* the multiples of all points by the scalars the library uses, computed once
MulTable == [Pn \in Points \X (0 .. FsModulus) |-> DoubleAndAdd(Pn[1], Pn[2])]
                @@ << >>

Point_mul(P, n) == MulTable[<<P, n>>]

mul_by_cofactor(P) == Point_mul(P, Cofactor)

PrimeOrder == {P \in Points : Point_mul(P, FsModulus) = Point_zero}

into_xy(P) == <<P[1], P[2]>>

(***************************************************************************)
(* The engine: byte encodings.                                             *)
(***************************************************************************)
Byte == 0 .. 255

\* Point::write: y little-endian in 32 bytes, the sign of x in the top bit
Point_write(P) ==
    [i \in 1 .. 32 |->
        IF i = 1 THEN P[2]
        ELSE IF i = 32 THEN (IF P[1] % 2 = 1 THEN 128 ELSE 0)
        ELSE 0]

\* Point::read: the inverse of write, failing on anything else
Point_read(b) ==
    LET y == b[1]
        sign == b[32] \div 128
        xs == {x \in Fr : OnCurve(x, y) /\ x % 2 = sign}
    IN  IF Len(b) # 32 \/ y >= FrModulus \/ b[32] % 128 # 0
           \/ (\E i \in 2 .. 31 : b[i] # 0) \/ xs = {}
        THEN None
        ELSE Some(<<CHOOSE x \in xs : TRUE, y>>)

\* WriteBytesExt::write_u64::<BigEndian>
RECURSIVE BigEndianBytes(_, _)
BigEndianBytes(v, n) ==
    IF n = 0 THEN <<>> ELSE Append(BigEndianBytes(v \div 256, n - 1), v % 256)

write_u64_BigEndian(v) == BigEndianBytes(v, 8)

RECURSIVE BitAnd(_, _)
BitAnd(a, b) ==
    IF a = 0 \/ b = 0 THEN 0
    ELSE 2 * BitAnd(a \div 2, b \div 2) + (IF a % 2 = 1 /\ b % 2 = 1 THEN 1 ELSE 0)

PowersOfTwo == [i \in 0 .. 8 |-> Pow2(i)]

\* (byte >> i) & 1
ShiftRightBit(byte, i) == (byte \div PowersOfTwo[i]) % 2

\* PrimeFieldRepr::read_be for Fs: the representation is FsReprBytes wide
FsReprBytes == 1

RECURSIVE BigEndianValue(_, _)
BigEndianValue(b, n) ==
    IF n = 0 THEN 0 ELSE 256 * BigEndianValue(b, n - 1) + b[n]

read_be(h) == BigEndianValue(h, FsReprBytes)

\* PrimeField::from_repr: only canonical representations are elements
from_repr(e) == IF e < FsModulus THEN Some(e) ELSE None

(***************************************************************************)
(* The engine: hash primitives.  BLAKE2s is a deterministic function from  *)
(* a personalization and a byte string to a 32-byte digest.                *)
(***************************************************************************)
CRH_IVK_PERSONALIZATION == 101
PRF_NR_PERSONALIZATION == 211
KEY_DIVERSIFICATION_PERSONALIZATION == 307

\* the digest state after absorbing data: each byte maps the state s to
\* 33 * s + 7 * byte + position; the bytes lo..hi together map s to
\* a * s + b, computed by halving the range
HashModulus == 32749

RECURSIVE AbsorbRange(_, _, _)
AbsorbRange(data, lo, hi) ==
    IF lo = hi THEN <<33, (data[lo] * 7 + lo) % HashModulus>>
    ELSE Let(AbsorbRange(data, lo, (lo + hi) \div 2), LAMBDA L :
         Let(AbsorbRange(data, ((lo + hi) \div 2) + 1, hi), LAMBDA R :
             <<(R[1] * L[1]) % HashModulus,
               (R[1] * L[2] + R[2]) % HashModulus>>))

Absorb(s, data) ==
    Let(AbsorbRange(data, 1, Len(data)), LAMBDA m :
        (m[1] * s + m[2]) % HashModulus)

Blake2s(personalization, data) ==
    Let(Absorb(personalization, data), LAMBDA s :
        [i \in 1 .. 32 |-> ((s \div i) + 7 * (i - 1)) % 256])

\* group_hash: hash, read the digest as a point, clear the cofactor; absent
\* when the digest is no point or the result is the identity
group_hash(tag, personalization) ==
    Let(Absorb(personalization, tag), LAMBDA s :
    Let({x \in Fr : /\ s % 128 < FrModulus
                    /\ OnCurve(x, s % 128)
                    /\ x % 2 = (s \div 128) % 2},
        LAMBDA xs :
    IF xs = {} THEN None
    ELSE Let(mul_by_cofactor(<<CHOOSE x \in xs : TRUE, s % 128>>), LAMBDA P :
             IF P = Point_zero THEN None ELSE Some(P))))

\* a generator of the prime-order subgroup, from which the fixed generators
\* are taken
BasePoint == CHOOSE P \in PrimeOrder : P # Point_zero

\* JubjubParams::generator
generator(name) ==
    CASE name = "ProofGenerationKey" -> Point_mul(BasePoint, 1)
      [] name = "NoteCommitmentRandomness" -> Point_mul(BasePoint, 2)
      [] name = "NullifierPosition" -> Point_mul(BasePoint, 3)
      [] name = "ValueCommitmentValue" -> Point_mul(BasePoint, 4)
      [] name = "ValueCommitmentRandomness" -> Point_mul(BasePoint, 5)

\* JubjubParams::pedersen_hash_generators
pedersen_hash_generator(segment) == Point_mul(BasePoint, 6 + segment)

\* Personalization::NoteCommitment.get_bits()
NoteCommitmentBits == <<TRUE, TRUE, TRUE, TRUE, TRUE, TRUE>>

\* chunks of three bits per window, 63 windows per generator
ChunksPerGenerator == 63

BitAt(bits, i) == IF i <= Len(bits) THEN bits[i] ELSE FALSE

\* the signed window value (1 + a + 2b) * (-1)^c of chunk j (from 0)
ChunkValue(bits, j) ==
    LET a == IF BitAt(bits, 3 * j + 1) THEN 1 ELSE 0
        b == IF BitAt(bits, 3 * j + 2) THEN 2 ELSE 0
        m == 1 + a + b
    IN  IF BitAt(bits, 3 * j + 3) THEN FsModulus - m ELSE m

\* 16^k in Fs
RECURSIVE PowerOf16(_)
PowerOf16(k) ==
    IF k = 0 THEN 1
    ELSE LET h == PowerOf16(k \div 2)
         IN  (h * h * (IF k % 2 = 1 THEN 16 ELSE 1)) % FsModulus

WindowWeights == [k \in 0 .. (ChunksPerGenerator - 1) |-> PowerOf16(k)]

WindowWeight(k) == WindowWeights[k]

\* the scalar of one segment: the sum over its chunks lo..hi of the window
\* value times 16^(chunk - first), computed by halving the range
RECURSIVE SegmentScalar(_, _, _, _)
SegmentScalar(bits, first, lo, hi) ==
    IF lo = hi THEN (ChunkValue(bits, lo) * WindowWeight(lo - first)) % FsModulus
    ELSE LET mid == (lo + hi) \div 2
         IN  (SegmentScalar(bits, first, lo, mid)
              + SegmentScalar(bits, first, mid + 1, hi)) % FsModulus

RECURSIVE PedersenSegments(_, _, _)
PedersenSegments(bits, segment, nchunks) ==
    IF segment * ChunksPerGenerator >= nchunks THEN Point_zero
    ELSE LET first == segment * ChunksPerGenerator
             last == IF first + ChunksPerGenerator < nchunks
                     THEN first + ChunksPerGenerator - 1 ELSE nchunks - 1
         IN  Point_add(
                 Point_mul(pedersen_hash_generator(segment),
                           SegmentScalar(bits, first, first, last)),
                 PedersenSegments(bits, segment + 1, nchunks))

pedersen_hash(personalization, bits) ==
    Let(personalization \o bits,
        LAMBDA all : PedersenSegments(all, 0, (Len(all) + 2) \div 3))

(***************************************************************************)
(* The state: the inputs held by a caller and the results of the library's *)
(* operations on them.  A result is Unset until its operation has run.     *)
(***************************************************************************)
VARIABLES
    vc,           \* two ValueCommitment structs
    vcCm,         \* their commitments, once computed
    pgk,          \* a ProofGenerationKey
    vk,           \* a ViewingKey
    diversifier,  \* a Diversifier
    addr,         \* the result of into_payment_address, or a given address
    derived,      \* whether addr came from into_payment_address(vk, diversifier)
    noteArgs,     \* the (value, randomness) create_note was called with
    note,         \* the result of create_note, or a given note
    cmOut,        \* the note's commitment with the values it was computed from
    nfOut,        \* position -> the nullifier with the values it was computed from
    digest,       \* a 32-byte digest about to be decoded as a scalar
    scalar        \* the result of decoding it

vars == <<vc, vcCm, pgk, vk, diversifier, addr, derived, noteArgs, note,
          cmOut, nfOut, digest, scalar>>

(***************************************************************************)
(* primitives/mod.rs: ValueCommitment.                                     *)
(***************************************************************************)
\* variant: the value generator used for the randomness as well
ValueCommitment_cm_one_generator(self) ==
    Point_add(
        Point_mul(generator("ValueCommitmentValue"), self.value),
        Point_mul(generator("ValueCommitmentValue"), self.randomness))

ValueCommitment_cm(self) ==
    Point_add(
        Point_mul(generator("ValueCommitmentValue"), self.value),
        Point_mul(generator("ValueCommitmentRandomness"), self.randomness))

(***************************************************************************)
(* primitives/mod.rs: ProofGenerationKey and ViewingKey.                   *)
(***************************************************************************)
\* variant: rk taken on the wrong fixed generator
into_viewing_key_wrong_generator(self) ==
    [ak |-> self.ak,
     rk |-> Point_mul(generator("NoteCommitmentRandomness"), self.rsk)]

into_viewing_key(self) ==
    [ak |-> self.ak,
     rk |-> Point_mul(generator("ProofGenerationKey"), self.rsk)]

\* variant: h[0] &= 0b0001_1111, three bits dropped instead of five
drop_3(h) == [h EXCEPT ![1] = BitAnd(h[1], 31)]

\* h[0] &= 0b0000_0111
drop_5(h) == [h EXCEPT ![1] = BitAnd(h[1], 7)]

\* from_repr(e).expect("should be a valid scalar")
expect_scalar(o) == IF o.tag = "Some" THEN o ELSE Panic

\* the scalar decoded from a digest, or Panic
to_scalar(h) == expect_scalar(from_repr(read_be(drop_5(h))))

ivk_preimage(self) == Point_write(self.ak) \o Point_write(self.rk)

ivk(self) == to_scalar(Blake2s(CRH_IVK_PERSONALIZATION, ivk_preimage(self)))

Diversifier_g_d(self) == group_hash(self, KEY_DIVERSIFICATION_PERSONALIZATION)

\* variant: g_d unwrapped instead of mapped, so absence panics
into_payment_address_unwrap(self, d) ==
    Let(Diversifier_g_d(d), LAMBDA o :
    Let(ivk(self), LAMBDA s :
        IF o.tag # "Some" \/ s.tag = "Panic" THEN Panic
        ELSE Some([pk_d |-> Point_mul(o.val, s.val), diversifier |-> d])))

\* variant: pk_d left at g_d, the multiplication by ivk forgotten
into_payment_address_no_ivk(self, d) ==
    Option_map(Diversifier_g_d(d),
               LAMBDA g_d : Some([pk_d |-> g_d, diversifier |-> d]))

into_payment_address(self, d) ==
    Option_map(Diversifier_g_d(d),
               LAMBDA g_d :
                   Let(ivk(self), LAMBDA s :
                       IF s.tag = "Panic" THEN Panic
                       ELSE Some([pk_d |-> Point_mul(g_d, s.val),
                                  diversifier |-> d])))

(***************************************************************************)
(* primitives/mod.rs: PaymentAddress.                                      *)
(***************************************************************************)
PaymentAddress_g_d(self) == Diversifier_g_d(self.diversifier)

\* variant: g_d and pk_d stored in each other's field
create_note_swapped(self, value, randomness) ==
    Option_map(PaymentAddress_g_d(self),
               LAMBDA g_d :
                   Some([value |-> value,
                         r |-> randomness,
                         g_d |-> self.pk_d,
                         pk_d |-> g_d]))

create_note(self, value, randomness) ==
    Option_map(PaymentAddress_g_d(self),
               LAMBDA g_d :
                   Some([value |-> value,
                         r |-> randomness,
                         g_d |-> g_d,
                         pk_d |-> self.pk_d]))

(***************************************************************************)
(* primitives/mod.rs: Note.                                                *)
(***************************************************************************)
uncommitted == 1

\* variant: (0..8) without rev(), least significant bit first
ByteBit_lsb_first(byte, j) == ShiftRightBit(byte, j - 1) = 1

\* (0..8).rev().map(move |i| ((byte >> i) & 1) == 1): the j-th bit yielded
\* for a byte, j = 1..8, is the one at i = 8 - j
ByteBit(byte, j) == ShiftRightBit(byte, 8 - j) = 1

\* note_contents.into_iter().flat_map(...)
FlatMapBits(bytes) ==
    [k \in 1 .. (8 * Len(bytes)) |->
        ByteBit(bytes[((k - 1) \div 8) + 1], ((k - 1) % 8) + 1)]

\* the values cm_full_point computes, in order; Panic if the assertion fails
cm_full_point_locals(self) ==
    Let(write_u64_BigEndian(self.value)
            \o Point_write(self.g_d)
            \o Point_write(self.pk_d),
        LAMBDA note_contents :
    IF Len(note_contents) # 32 + 32 + 8 THEN Panic
    ELSE
    Let(FlatMapBits(note_contents), LAMBDA bits :
    Let(pedersen_hash(NoteCommitmentBits, bits), LAMBDA hash_of_contents :
        [tag |-> "Some",
         note_contents |-> note_contents,
         bits |-> bits,
         hash_of_contents |-> hash_of_contents,
         val |-> Point_add(
                     Point_mul(generator("NoteCommitmentRandomness"), self.r),
                     hash_of_contents)])))

cm_full_point(self) == cm_full_point_locals(self).val

\* variant: the position is not added to the commitment point
nf_locals_no_position(self, viewing_key, position) ==
    Let(cm_full_point_locals(self), LAMBDA full :
    Let(Point_write(viewing_key.rk) \o Point_write(full.val),
        LAMBDA nr_preimage :
    Let(Blake2s(PRF_NR_PERSONALIZATION, nr_preimage), LAMBDA h :
    Let(to_scalar(h), LAMBDA nr :
        [tag |-> "Some",
         cm_plus_position |-> full.val,
         nr_preimage |-> nr_preimage,
         h |-> h,
         nr |-> nr.val,
         val |-> Point_mul(viewing_key.ak, nr.val)]))))

\* variant: the preimage is cm_plus_position then rk
nf_locals_cm_first(self, viewing_key, position) ==
    Let(cm_full_point_locals(self), LAMBDA full :
    Let(Point_add(full.val,
                  Point_mul(generator("NullifierPosition"), position)),
        LAMBDA cm_plus_position :
    Let(Point_write(cm_plus_position) \o Point_write(viewing_key.rk),
        LAMBDA nr_preimage :
    Let(Blake2s(PRF_NR_PERSONALIZATION, nr_preimage), LAMBDA h :
    Let(to_scalar(h), LAMBDA nr :
        [tag |-> "Some",
         cm_plus_position |-> cm_plus_position,
         nr_preimage |-> nr_preimage,
         h |-> h,
         nr |-> nr.val,
         val |-> Point_mul(viewing_key.ak, nr.val)])))))

\* the values nf computes, in order; Panic if an assertion or expect fails
nf_locals(self, viewing_key, position) ==
    Let(cm_full_point_locals(self), LAMBDA full :
    IF full.tag = "Panic" THEN Panic
    ELSE
    Let(Point_add(full.val,
                  Point_mul(generator("NullifierPosition"), position)),
        LAMBDA cm_plus_position :
    Let(Point_write(viewing_key.rk) \o Point_write(cm_plus_position),
        LAMBDA nr_preimage :
    Let(Blake2s(PRF_NR_PERSONALIZATION, nr_preimage), LAMBDA h :
    Let(to_scalar(h), LAMBDA nr :
    IF nr.tag = "Panic" THEN Panic
    ELSE [tag |-> "Some",
          cm_plus_position |-> cm_plus_position,
          nr_preimage |-> nr_preimage,
          h |-> h,
          nr |-> nr.val,
          val |-> Point_mul(viewing_key.ak, nr.val)])))))

nf(self, viewing_key, position) == nf_locals(self, viewing_key, position).val

\* variant: into_xy().1, the y-coordinate
Note_cm_locals_y(self) ==
    Let(cm_full_point_locals(self), LAMBDA full :
        [tag |-> "Some",
         note_contents |-> full.note_contents,
         bits |-> full.bits,
         hash_of_contents |-> full.hash_of_contents,
         point |-> full.val,
         val |-> into_xy(full.val)[2]])

\* self.cm_full_point(params).into_xy().0
Note_cm_locals(self) ==
    Let(cm_full_point_locals(self), LAMBDA full :
    IF full.tag = "Panic" THEN Panic
    ELSE [tag |-> "Some",
          note_contents |-> full.note_contents,
          bits |-> full.bits,
          hash_of_contents |-> full.hash_of_contents,
          point |-> full.val,
          val |-> into_xy(full.val)[1]])

Note_cm(self) == Note_cm_locals(self).val

(***************************************************************************)
(* Value commitments: two commitments are made by a caller and computed.   *)
(***************************************************************************)
ValueCommitments == [value : U64, randomness : Fs]

IdleKeys ==
    /\ pgk = Unset /\ vk = Unset /\ diversifier = Unset
    /\ addr = Unset /\ derived = FALSE
IdleNote == noteArgs = Unset /\ note = Unset /\ cmOut = Unset /\ nfOut = << >>
IdleVC == vc = Unset /\ vcCm = Unset
IdleDecode == digest = Unset /\ scalar = Unset

InitVC ==
    /\ vc \in [1 .. 2 -> ValueCommitments]
    /\ vcCm = [i \in 1 .. 2 |-> Unset]
    /\ IdleKeys /\ IdleNote /\ IdleDecode

Cm(i) ==
    /\ vcCm[i] = Unset
    /\ vcCm' = [vcCm EXCEPT ![i] = Some(ValueCommitment_cm(vc[i]))]
    /\ UNCHANGED <<vc, pgk, vk, diversifier, addr, derived, noteArgs, note,
                   cmOut, nfOut, digest, scalar>>

NextVC == \E i \in 1 .. 2 : Cm(i)

SpecVC == InitVC /\ [][NextVC]_vars

\* n-fold sum of P, the meaning of scalar multiplication
RECURSIVE Times(_, _)
Times(n, P) == IF n = 0 THEN Point_zero ELSE Point_add(P, Times(n - 1, P))

BothCommitted == vcCm # Unset /\ vcCm[1] # Unset /\ vcCm[2] # Unset

CommitmentOf(value, randomness) ==
    Point_add(Times(value, generator("ValueCommitmentValue")),
              Times(randomness, generator("ValueCommitmentRandomness")))

\* C1 (as stated): for all u64 values v1, v2 the commitments sum to the
\* commitment of the u64 v1 + v2 and the scalar r1 + r2.
C1_HomomorphismAllU64 ==
    BothCommitted =>
        Point_add(vcCm[1].val, vcCm[2].val)
            = CommitmentOf(wrapping_add(vc[1].value, vc[2].value),
                           Fs_add(vc[1].randomness, vc[2].randomness))

\* C1 (amended): whenever v1 + v2 is itself a u64 (the sum does not
\* overflow), commit(v1, r1) + commit(v2, r2) = commit(v1 + v2, r1 + r2).
C1_Homomorphism ==
    (BothCommitted /\ vc[1].value + vc[2].value \in U64) =>
        Point_add(vcCm[1].val, vcCm[2].val)
            = CommitmentOf(vc[1].value + vc[2].value,
                           Fs_add(vc[1].randomness, vc[2].randomness))

\* both commitments computed, nonzero values, randomness sum wrapping in Fs
C1_Witness ==
    /\ BothCommitted
    /\ vc[1].value > 0 /\ vc[2].value > 0
    /\ vc[1].value + vc[2].value \in U64
    /\ vc[1].randomness + vc[2].randomness >= FsModulus

(***************************************************************************)
(* The key hierarchy: a proof generation key and a diversifier are turned  *)
(* into a viewing key, a payment address and notes; or a payment address   *)
(* is given as a struct and notes are created from it.                     *)
(***************************************************************************)
ProofGenerationKeys == [ak : PrimeOrder, rsk : Fs]

Diversifiers == {[i \in 1 .. 11 |-> IF i = 1 THEN b ELSE 0] : b \in 0 .. MaxDiv}

PaymentAddresses == [pk_d : PrimeOrder, diversifier : Diversifiers]

InitKeys ==
    /\ \/ /\ pgk \in ProofGenerationKeys
          /\ diversifier \in Diversifiers
          /\ addr = Unset
       \/ /\ pgk = Unset
          /\ diversifier = Unset
          /\ addr \in {Some(a) : a \in PaymentAddresses}
    /\ vk = Unset
    /\ derived = FALSE
    /\ IdleVC /\ IdleNote /\ IdleDecode

IntoViewingKey ==
    /\ pgk # Unset
    /\ vk = Unset
    /\ vk' = Some(into_viewing_key(pgk))
    /\ UNCHANGED <<vc, vcCm, pgk, diversifier, addr, derived, noteArgs, note,
                   cmOut, nfOut, digest, scalar>>

IntoPaymentAddress ==
    /\ vk # Unset
    /\ diversifier # Unset
    /\ addr = Unset
    /\ addr' = into_payment_address(vk.val, diversifier)
    /\ derived' = TRUE
    /\ UNCHANGED <<vc, vcCm, pgk, vk, diversifier, noteArgs, note, cmOut, nfOut,
                   digest, scalar>>

CreateNote(value, randomness) ==
    /\ addr.tag = "Some"
    /\ note = Unset
    /\ noteArgs' = [value |-> value, randomness |-> randomness]
    /\ note' = create_note(addr.val, value, randomness)
    /\ UNCHANGED <<vc, vcCm, pgk, vk, diversifier, addr, derived, cmOut, nfOut,
                   digest, scalar>>

NextKeys ==
    \/ IntoViewingKey
    \/ IntoPaymentAddress
    \/ \E value \in U64, randomness \in 0 .. MaxRand : CreateNote(value, randomness)

SpecKeys == InitKeys /\ [][NextKeys]_vars

\* the diversified base of a diversifier, as the group hash defines it
DiversifiedBase(d) == group_hash(d, KEY_DIVERSIFICATION_PERSONALIZATION)

\* C7: into_viewing_key(k) never fails: for every key it yields a viewing key
\* of two subgroup points; the result has rk = rsk * G_proof_gen and
\* ak = k.ak; and the call leaves k unchanged.
C7_IntoViewingKey ==
    /\ [](pgk # Unset =>
            /\ into_viewing_key(pgk) \in [ak : PrimeOrder, rk : PrimeOrder]
            /\ vk # Unset =>
                  /\ vk.tag = "Some"
                  /\ vk.val.rk = Times(pgk.rsk, generator("ProofGenerationKey"))
                  /\ vk.val.ak = pgk.ak)
    /\ [][IntoViewingKey => pgk' = pgk]_vars

\* a viewing key derived from a key with a nontrivial ak and rsk
C7_Witness ==
    /\ pgk # Unset /\ vk # Unset
    /\ pgk.rsk > 1 /\ pgk.ak # Point_zero
    /\ vk.val.rk # Point_zero

\* C2: into_payment_address(d) is None exactly when the group hash of d is
\* undefined, and never panics; otherwise it is Some address with diversifier
\* d and pk_d = ivk * g_d, a point of the prime-order subgroup.
C2_IntoPaymentAddress ==
    derived =>
        /\ addr.tag \in {"None", "Some"}
        /\ (addr = None) <=> (DiversifiedBase(diversifier) = None)
        /\ addr.tag = "Some" =>
              /\ addr.val.diversifier = diversifier
              /\ addr.val.pk_d
                    = Times(ivk(vk.val).val, DiversifiedBase(diversifier).val)
              /\ addr.val.pk_d \in PrimeOrder

\* the derivation reported absence for a diversifier with no diversified base
C2_Witness ==
    /\ derived
    /\ addr = None
    /\ DiversifiedBase(diversifier) = None

\* C8: create_note(value, randomness) is None exactly when the group hash of
\* the address's diversifier is undefined; otherwise it is the note with the
\* given value and randomness, the address's pk_d, and g_d the group hash of
\* the address's diversifier, and with no other field.
C8_CreateNote ==
    noteArgs # Unset =>
        /\ (note = None) <=> (DiversifiedBase(addr.val.diversifier) = None)
        /\ note # None =>
              note = Some([value |-> noteArgs.value,
                           r |-> noteArgs.randomness,
                           pk_d |-> addr.val.pk_d,
                           g_d |-> DiversifiedBase(addr.val.diversifier).val])

\* a note created from a given address, with a nonzero value and randomness
C8_Witness ==
    /\ noteArgs # Unset
    /\ ~derived
    /\ note.tag = "Some"
    /\ note.val.value > 0 /\ note.val.r > 0
    /\ note.val.g_d # note.val.pk_d

\* C10: once into_payment_address(d) has returned Some(addr), create_note on
\* addr returns Some(note) for every value and randomness, with
\* note.g_d the diversified base of d and note.pk_d = ivk(vk) * note.g_d.
C10_DerivationChain ==
    (derived /\ addr.tag = "Some" /\ noteArgs # Unset) =>
            /\ note.tag = "Some"
            /\ note.val.g_d = DiversifiedBase(diversifier).val
            /\ note.val.pk_d = Times(ivk(vk.val).val, note.val.g_d)

\* a note created from a derived address whose pk_d is not the identity
C10_Witness ==
    /\ derived
    /\ note.tag = "Some"
    /\ note.val.pk_d # Point_zero
    /\ note.val.r > 0

(***************************************************************************)
(* Notes: a note and a viewing key are given as structs; either the note's *)
(* commitment is computed, or its nullifier at up to two positions.        *)
(***************************************************************************)
DrawnPoints == {Point_mul(BasePoint, k) : k \in 0 .. MaxPoint}

Notes == [value : 0 .. MaxValue,
          g_d : DrawnPoints,
          pk_d : {Point_zero, Point_mul(BasePoint, 5)},
          r : 0 .. MaxRand]

ViewingKeys == [ak : {Point_zero, BasePoint, Point_mul(BasePoint, 4)},
                rk : {BasePoint, Point_mul(BasePoint, 7)}]

GivenNote ==
    /\ note \in {Some(n) : n \in Notes}
    /\ vk \in {Some(k) : k \in ViewingKeys}
    /\ noteArgs = Unset /\ cmOut = Unset /\ nfOut = << >>
    /\ IdleVC
    /\ pgk = Unset /\ diversifier = Unset /\ addr = Unset /\ derived = FALSE

InitNote == GivenNote /\ IdleDecode

NoteCm ==
    /\ note.tag = "Some"
    /\ cmOut = Unset
    /\ nfOut = << >>
    /\ cmOut' = Note_cm_locals(note.val)
    /\ UNCHANGED <<vc, vcCm, pgk, vk, diversifier, addr, derived, noteArgs, note,
                   nfOut, digest, scalar>>

NoteNf(position) ==
    /\ note.tag = "Some"
    /\ vk # Unset
    /\ cmOut = Unset
    /\ position \notin DOMAIN nfOut
    /\ Cardinality(DOMAIN nfOut) < 2
    /\ nfOut' = nfOut @@ (position :> nf_locals(note.val, vk.val, position))
    /\ UNCHANGED <<vc, vcCm, pgk, vk, diversifier, addr, derived, noteArgs, note,
                   cmOut, digest, scalar>>

NextNote ==
    \/ NoteCm
    \/ \E position \in 0 .. MaxPosition : NoteNf(position)

SpecNote == InitNote /\ [][NextNote]_vars

(***************************************************************************)
(* Scalar decoding: a digest is decoded as ivk and nf decode theirs; ivk   *)
(* is computed for a viewing key, nf for a note.                           *)
(***************************************************************************)
Digests == {[i \in 1 .. 32 |-> IF i = 1 THEN b ELSE IF i = 2 THEN c ELSE 0] :
                b \in Byte, c \in {0, 255}}

InitDecode ==
    \/ /\ digest \in Digests
       /\ scalar = Unset
       /\ IdleVC /\ IdleKeys /\ IdleNote
    \/ /\ GivenNote
       /\ IdleDecode

Decode ==
    /\ digest # Unset
    /\ scalar = Unset
    /\ scalar' = to_scalar(digest)
    /\ UNCHANGED <<vc, vcCm, pgk, vk, diversifier, addr, derived, noteArgs, note,
                   cmOut, nfOut, digest>>

Ivk ==
    /\ vk # Unset
    /\ scalar = Unset
    /\ scalar' = ivk(vk.val)
    /\ UNCHANGED <<vc, vcCm, pgk, vk, diversifier, addr, derived, noteArgs, note,
                   cmOut, nfOut, digest>>

NextDecode ==
    \/ Decode
    \/ Ivk
    \/ \E position \in 0 .. MaxPosition : NoteNf(position)

SpecDecode == InitDecode /\ [][NextDecode]_vars

\* the full commitment point and the commitment of every note drawn, as
\* tables
CmFullPointOf == [n \in Notes |-> cm_full_point(n)] @@ << >>
NoteCmOf == [n \in Notes |-> Note_cm(n)] @@ << >>

\* the number a byte's eight bits spell, most significant first
RECURSIVE BitsValue(_, _, _)
BitsValue(bits, from, n) ==
    IF n = 0 THEN 0
    ELSE 2 * BitsValue(bits, from, n - 1) + (IF bits[from + n - 1] THEN 1 ELSE 0)

\* the integer left of a digest's representation once its top five bits
\* are cleared
Drop5Value(h) == read_be(h) % Pow2(8 * FsReprBytes - 5)

\* C5: cm is the x-coordinate of r * G_note_rand + PedersenHash(bits), bits
\* being the MSB-first expansion of value (8 bytes big-endian) || enc(g_d)
\* || enc(pk_d), a buffer of exactly 72 bytes; the assertion never fails.
C5_NoteCommitment ==
    cmOut # Unset =>
        /\ cmOut.tag = "Some"
        /\ Len(cmOut.note_contents) = 72
        /\ BigEndianValue(SubSeq(cmOut.note_contents, 1, 8), 8) = note.val.value
        /\ Point_read(SubSeq(cmOut.note_contents, 9, 40)) = Some(note.val.g_d)
        /\ Point_read(SubSeq(cmOut.note_contents, 41, 72)) = Some(note.val.pk_d)
        /\ Len(cmOut.bits) = 576
        /\ \A b \in 1 .. 72 :
              BitsValue(cmOut.bits, 8 * (b - 1) + 1, 8) = cmOut.note_contents[b]
        /\ cmOut.hash_of_contents = pedersen_hash(NoteCommitmentBits, cmOut.bits)
        /\ cmOut.point
              = Point_add(Times(note.val.r, generator("NoteCommitmentRandomness")),
                          cmOut.hash_of_contents)
        /\ cmOut.val = cmOut.point[1]

\* the commitment of a note with a nonzero value, randomness and points
C5_Witness ==
    /\ cmOut # Unset
    /\ note.val.value > 1 /\ note.val.r > 0
    /\ note.val.g_d # Point_zero /\ note.val.pk_d # Point_zero
    /\ note.val.g_d[1] % 2 = 1

\* C6: the x-coordinate is injective on the prime-order subgroup: no other
\* subgroup point has the x-coordinate of a note's commitment point, so notes
\* with different full commitment points have different commitments.
C6_XCoordinateInjective ==
    cmOut # Unset =>
        /\ cmOut.point \in PrimeOrder
        /\ \A Q \in PrimeOrder : Q # cmOut.point => into_xy(Q)[1] # cmOut.val
        /\ \A n \in Notes :
              CmFullPointOf[n] # cmOut.point => NoteCmOf[n] # cmOut.val

\* a commitment whose point is not the identity, and another note drawn
\* whose commitment point is its negation
C6_Witness ==
    /\ cmOut # Unset
    /\ cmOut.point # Point_zero
    /\ \E n \in Notes : CmFullPointOf[n] = Point_negate(cmOut.point)

\* the nullifier as a function of a full commitment point, a viewing key
\* and a position alone
NullifierOfPoint(P, viewing_key, position) ==
    Times(Drop5Value(Blake2s(PRF_NR_PERSONALIZATION,
                             Point_write(viewing_key.rk)
                                 \o Point_write(
                                        Point_add(P, Times(position,
                                            generator("NullifierPosition")))))),
          viewing_key.ak)

\* C4: nf = ak * nr, nr the scalar decoded from the masked PRF digest of the
\* 64-byte preimage enc(rk) || enc(cm_full_point + position * G_null_pos);
\* the note enters only through its full commitment point.
C4_Nullifier ==
    \A p \in DOMAIN nfOut :
        /\ nfOut[p].tag = "Some"
        /\ Len(nfOut[p].nr_preimage) = 64
        /\ Point_read(SubSeq(nfOut[p].nr_preimage, 1, 32)) = Some(vk.val.rk)
        /\ Point_read(SubSeq(nfOut[p].nr_preimage, 33, 64))
              = Some(Point_add(CmFullPointOf[note.val],
                               Times(p, generator("NullifierPosition"))))
        /\ nfOut[p].h = Blake2s(PRF_NR_PERSONALIZATION, nfOut[p].nr_preimage)
        /\ nfOut[p].nr = Drop5Value(nfOut[p].h)
        /\ nfOut[p].val = Times(nfOut[p].nr, vk.val.ak)
        /\ nfOut[p].val = NullifierOfPoint(CmFullPointOf[note.val], vk.val, p)

\* a nullifier at a nonzero position that is not the identity, under a
\* viewing key whose ak and rk differ
C4_Witness ==
    \E p \in DOMAIN nfOut :
        /\ p > 0
        /\ nfOut[p].val # Point_zero
        /\ vk.val.rk # vk.val.ak
        /\ nfOut[p].nr > 1

\* C3 (as stated): nullifiers of one note and viewing key at two different
\* positions are different points.
C3_NullifierUniqueness ==
    \A p1, p2 \in DOMAIN nfOut :
        p1 # p2 => nfOut[p1].val # nfOut[p2].val

\* C3 (amended): at two different positions the PRF preimages differ, and
\* the nullifiers differ exactly when ak is not the identity and the two
\* decoded scalars nr differ.
C3_NullifierDistinct ==
    \A p1, p2 \in DOMAIN nfOut :
        p1 # p2 =>
            /\ nfOut[p1].cm_plus_position # nfOut[p2].cm_plus_position
            /\ nfOut[p1].nr_preimage # nfOut[p2].nr_preimage
            /\ (nfOut[p1].val # nfOut[p2].val)
                  <=> (vk.val.ak # Point_zero /\ nfOut[p1].nr # nfOut[p2].nr)

\* two positions with different nullifiers
C3_Witness ==
    \E p1, p2 \in DOMAIN nfOut :
        /\ p1 # p2
        /\ nfOut[p1].val # nfOut[p2].val

\* C9: a digest with the top five bits of its first byte cleared reads as an
\* integer below 2^(width - 5), hence below the modulus: decoding never
\* takes the fatal path, for any digest, in ivk and in nf.
C9_ScalarDecode ==
    /\ scalar # Unset =>
          /\ scalar.tag = "Some"
          /\ scalar.val < Pow2(8 * FsReprBytes - 5)
          /\ scalar.val < FsModulus
          /\ digest # Unset => scalar.val = Drop5Value(digest)
    /\ \A p \in DOMAIN nfOut :
          /\ nfOut[p].tag = "Some"
          /\ nfOut[p].nr < Pow2(8 * FsReprBytes - 5)

\* a digest whose first byte has all its bits set was decoded
C9_Witness ==
    /\ digest # Unset
    /\ scalar # Unset
    /\ digest[1] = 255
=============================================================================
